---- MODULE Spec2Model ----
(***************************************************************************)
(* Model of fastapi_quickcrud/crud_router.py: the route registry built by  *)
(* crud_router_builder, the eleven request handlers it registers and the   *)
(* result interpreter SQLALchemyResultParse.                               *)
(*                                                                         *)
(* One request is handled by one action.  What the handler did, in order,  *)
(* is kept in res.log as a sequence of events <<op, how>>, where how is    *)
(* "await" (the call was awaited), "call" (plain blocking call) or "local" *)
(* (no engine involved).                                                   *)
(*                                                                         *)
(* The execution engine, the query service and the schema layer are not    *)
(* part of crud_router.py.  Their results are inputs of a request:         *)
(*   - the outcome of session.execute(stmt): a raised failure, or rows;    *)
(*   - for each row, whether parse_obj_as accepts it for the response      *)
(*     schema (field ok);                                                  *)
(*   - for create-and-redirect, the request path and the application's     *)
(*     route table.                                                        *)
(* Statements by primary key return at most one row, an insert of one row  *)
(* returns exactly one row, rowcount is the number of returned rows, the   *)
(* args of a driver error hold exactly one message, every route of the     *)
(* application has a non-empty set of upper-case methods, and              *)
(* session.commit()/rollback() themselves do not fail.                     *)
(*                                                                         *)
(* Python's assert statements are executed (no -O).  A request is served   *)
(* by the first registered route that matches its method and path.         *)
(*                                                                         *)
(* Spec      : requests with every outcome the engine can give, on routers *)
(*             with every kind enabled or only one of the three POST kinds. *)
(* SpecTable : sequences of find-one, upsert-one, update, patch and delete  *)
(*             requests on one table; a statement's outcome is computed from *)
(*             the table (db), a commit makes the session's writes the     *)
(*             table, and prev keeps the request before the current one.   *)
(*             Stored rows fit the response schemas.                       *)
(* SpecRegistry : the registration loop of crud_router_builder.            *)
(***************************************************************************)
EXTENDS Integers, Sequences, FiniteSets, TLC

VARIABLES
    async_mode,   \* crud_router_builder(async_mode=...)
    autocommit,   \* crud_router_builder(autocommit=...)
    enabled,      \* the operation kinds crud_models declares
    pending,      \* kinds the registration loop has not reached yet
    api_routes,   \* api.routes, in registration order
    phase,        \* "idle": no request in progress; "done": a handler has returned
    req,          \* the request handled last and the engine's answer to it
    res,          \* what the handler produced for it
    db,           \* the persisted rows of the entity's table
    txn,          \* the unit-of-work of the request: statement, table before, table in the session
    prev          \* the request before this one, with its result and the table around it

vars == <<async_mode, autocommit, enabled, pending, api_routes, phase, req, res,
          db, txn, prev>>

----------------------------------------------------------------------------
(* Bounds of the model *)

\* longest row sequence an execution returns
MaxRows == 2
\* primary-key values are 1..MaxPk
MaxPk == 2
\* longest application route table the Redirect Linker scans
MaxRoutes == 2
\* largest set of enabled kinds the registry is built for
MaxEnabled == 3

----------------------------------------------------------------------------
(* Program constants *)

\* Python's None, as the value of a missing primary key
None == -1
\* HTTPStatus values and the status_code arguments of the route decorators
OK == 200
CREATED == 201
NO_CONTENT == 204
SEE_OTHER == 303
NOT_FOUND == 404
CONFLICT == 409
\* crud_models.PRIMARY_KEY_NAME
primary_name == "id"
\* path = '/{' + primary_name + '}'
path == "/{" \o primary_name \o "}"
\* the marker string the except clauses look for
DuplicateKeyMarker == "duplicate key value violates unique constraint"

\* the keys of api_register
Kinds ==
    {"FIND_ONE", "FIND_MANY", "UPSERT_ONE", "UPSERT_MANY", "DELETE_ONE",
     "DELETE_MANY", "POST_REDIRECT_GET", "PATCH_ONE", "PATCH_MANY",
     "UPDATE_ONE", "UPDATE_MANY"}

----------------------------------------------------------------------------
(* Inputs of a request *)

\* non-empty values of a second column
Vals == {"a", "b"}

\* a row the engine returns; ok: parse_obj_as accepts it for the response schema
Rows == [id : (1..MaxPk) \cup {None}, val : Vals, ok : BOOLEAN]

RECURSIVE SeqsUpTo(_, _)
SeqsUpTo(S, n) ==
    IF n = 0 THEN {<<>>}
    ELSE LET shorter == SeqsUpTo(S, n - 1)
         IN  shorter \cup {Append(s, x) : s \in {t \in shorter : Len(t) = n - 1}, x \in S}

\* kinds whose statement is built from a primary key
ByPrimaryKey == {"FIND_ONE", "UPDATE_ONE", "PATCH_ONE", "DELETE_ONE"}
\* kinds whose statement inserts exactly one row
InsertOne == {"UPSERT_ONE", "POST_REDIRECT_GET"}

RowSeqs(kind) ==
    IF kind \in ByPrimaryKey THEN SeqsUpTo(Rows, 1)
    ELSE IF kind \in InsertOne THEN {<<r>> : r \in Rows}
    ELSE SeqsUpTo(Rows, MaxRows)

\* e.orig.args[0] of a failure, as the sequence of its fragments
Messages ==
    {<<DuplicateKeyMarker, " \"t_pkey\"">>,
     <<"null value in column \"val\" violates not-null constraint">>}
\* the failures session.execute raises
Failures == {"IntegrityError", "OperationalError"}

\* what session.execute(stmt) gives
Outcomes(kind) ==
    [exc : {"none"}, msg : {<<>>}, rows : RowSeqs(kind)]
    \cup [exc : Failures, msg : Messages, rows : {<<>>}]

\* request.url.path of a create-and-redirect request
UrlPaths == {"/a", "/b"}
\* route.methods of a route of the application
MethodNames == {"GET", "PUT", "PATCH"}
AppRoutes ==
    [path : {p \o path : p \in UrlPaths}, methods : (SUBSET MethodNames) \ {{}}]
RouteTables == SeqsUpTo(AppRoutes, MaxRoutes)

----------------------------------------------------------------------------
(* Python and library primitives *)

Digits == <<"0", "1", "2", "3", "4", "5", "6", "7", "8", "9">>

\* str(n) for n >= 0
RECURSIVE str(_)
str(n) ==
    IF n < 10 THEN Digits[n + 1] ELSE str(n \div 10) \o Digits[(n % 10) + 1]

\* marker in err_msg
Contains(err_msg, marker) == \E i \in 1..Len(err_msg) : err_msg[i] = marker

\* method.upper()
upper(m) ==
    CASE m = "get" -> "GET"
      [] m = "put" -> "PUT"
      [] m = "patch" -> "PATCH"
      [] OTHER -> m

\* the object parse_obj_as builds from a row
Entity(row) == [id |-> row.id, val |-> row.val]
\* {self.primary_name: i}
KeyObject(i) == (primary_name :> i)

\* parse_obj_as of a list of rows
Entities(rows) == [i \in 1..Len(rows) |-> Entity(rows[i])]

\* parse_obj_as accepts a list when it accepts each element
AllOk(rows) == \A i \in 1..Len(rows) : rows[i].ok

\* sql_execute_result.rowcount
rowcount(o) == Len(o.rows)

\* the scalars of the rows of a DELETE ... RETURNING <primary key>
PkOf(row) == row.id

\* [{self.primary_name: i} for i in sql_execute_result.scalars()]
KeyObjects(rows) == [i \in 1..Len(rows) |-> KeyObject(PkOf(rows[i]))]

----------------------------------------------------------------------------
(* Events and handler results *)

\* how this router calls the engine
Mode == IF async_mode THEN "await" ELSE "call"
Ev(op, how) == <<op, how>>
Local(log, op) == Append(log, Ev(op, "local"))

\* the handler returned a value: FastAPI sends it with the route's status_code
\* and the headers set on the injected response
Value(shape, items, headers, log) ==
    [via |-> "value", status |-> 0, shape |-> shape, items |-> items,
     headers |-> headers, location |-> "", exc |-> "none", msg |-> <<>>,
     log |-> log]

\* Response(status_code=...): sent as it is
Response(status_code, log) ==
    [via |-> "response", status |-> status_code, shape |-> "none", items |-> <<>>,
     headers |-> {}, location |-> "", exc |-> "none", msg |-> <<>>,
     log |-> log]

\* RedirectResponse(url, status_code=...)
RedirectResponse(url, status_code, log) ==
    [via |-> "response", status |-> status_code, shape |-> "none", items |-> <<>>,
     headers |-> {}, location |-> url, exc |-> "none", msg |-> <<>>,
     log |-> log]

\* an exception of class exc with message msg leaves the handler
RaiseWith(exc, msg, log) ==
    [via |-> "raise", status |-> 0, shape |-> "none", items |-> <<>>,
     headers |-> {}, location |-> "", exc |-> exc, msg |-> msg,
     log |-> log]

\* an exception the handler's own code raises
Raise(exc, log) == RaiseWith(exc, <<>>, log)

\* the failure of session.execute leaves the handler as it is
Propagate(o, log) == RaiseWith(o.exc, o.msg, log)

\* raise FindOneApiNotRegister(404, detail)
RaiseFindOneApiNotRegister(detail, log) ==
    [via |-> "raise", status |-> NOT_FOUND, shape |-> "none", items |-> <<>>,
     headers |-> {}, location |-> "", exc |-> "FindOneApiNotRegister",
     msg |-> <<detail>>, log |-> log]

\* fastapi_response.headers["x-total-count"] = str(n)
TotalCount(n) == {<<"x-total-count", str(n)>>}

\* what the route decorator makes of the handler's return value
Endpoint(status_code, r) ==
    IF r.via = "value" THEN [r EXCEPT !.status = status_code] ELSE r

----------------------------------------------------------------------------
(* SQLALchemyResultParse *)

\* mutant of commit: the autocommit policy is ignored
commit_Always(log) == Append(log, Ev("commit", Mode))

\* commit: session.commit() only under autocommit, awaited in async mode
commit(log) == IF autocommit THEN Append(log, Ev("commit", Mode)) ELSE log

\* mutant of rollback: session.rollback() is called without await in both modes
rollback_Blocking(log) == Append(log, Ev("rollback", "call"))

\* session.rollback(), awaited in async mode
rollback(log) == Append(log, Ev("rollback", Mode))

\* mutant of find_one: a row the schema rejects is answered like no row
find_one_MismatchIs204(o, log) ==
    LET log1 == Local(log, "read_rows")
    IN  IF Len(o.rows) > 1 THEN Raise("MultipleResultsFound", log1)
        ELSE IF Len(o.rows) = 1 /\ o.rows[1].ok
        THEN Value("object", <<Entity(o.rows[1])>>, TotalCount(1),
                   commit(Local(Local(log1, "parse"), "header")))
        ELSE Response(NO_CONTENT, commit(log1))

find_one(o, log) ==
    LET log1 == Local(log, "read_rows")
    IN  IF Len(o.rows) > 1 THEN Raise("MultipleResultsFound", log1)
        ELSE IF Len(o.rows) = 1
        THEN LET log2 == Local(log1, "parse")
             IN  IF ~o.rows[1].ok THEN Raise("ValidationError", log2)
                 ELSE Value("object", <<Entity(o.rows[1])>>, TotalCount(1),
                            commit(Local(log2, "header")))
        ELSE Response(NO_CONTENT, commit(log1))

\* mutant of find_many: an empty result is answered like update_many's
find_many_Empty204(o, log) ==
    LET result_list == o.rows
        log2 == Local(Local(log, "read_rows"), "parse")
    IN  IF result_list = <<>> THEN Response(NO_CONTENT, Local(log, "read_rows"))
        ELSE IF ~AllOk(result_list) THEN Raise("ValidationError", log2)
        ELSE Value("list", Entities(result_list), TotalCount(Len(result_list)),
                   commit(Local(log2, "header")))

\* mutant of find_many: the commit is made before the rows are read
find_many_CommitFirst(o, log) ==
    LET result_list == o.rows
        log2 == Local(Local(commit(log), "read_rows"), "parse")
    IN  IF ~AllOk(result_list) THEN Raise("ValidationError", log2)
        ELSE Value("list", Entities(result_list), TotalCount(Len(result_list)),
                   Local(log2, "header"))

find_many(o, log) ==
    LET result_list == o.rows
        log2 == Local(Local(log, "read_rows"), "parse")
    IN  IF ~AllOk(result_list) THEN Raise("ValidationError", log2)
        ELSE Value("list", Entities(result_list), TotalCount(Len(result_list)),
                   commit(Local(log2, "header")))

\* mutant of update_one: StopIteration is not caught
update_one_NoCatch(o, log) ==
    LET log1 == Local(log, "read_rows")
    IN  IF o.rows = <<>> THEN Raise("StopIteration", log1)
        ELSE LET query_result == o.rows[1]
                 log2 == Local(Local(log1, "header"), "parse")
             IN  IF ~query_result.ok THEN Raise("ValidationError", log2)
                 ELSE Value("object", <<Entity(query_result)>>, TotalCount(1),
                            commit(log2))

update_one(o, log) ==
    LET log1 == Local(log, "read_rows")
    IN  IF o.rows = <<>> THEN Response(NO_CONTENT, log1)
        ELSE LET query_result == o.rows[1]
                 log2 == Local(Local(log1, "header"), "parse")
             IN  IF ~query_result.ok THEN Raise("ValidationError", log2)
                 ELSE Value("object", <<Entity(query_result)>>, TotalCount(1),
                            commit(log2))

\* mutant of update_many: the header is written as update_one writes it
update_many_CountOne(o, log) ==
    LET result_list == o.rows
        log1 == Local(log, "read_rows")
    IN  IF result_list = <<>> THEN Response(NO_CONTENT, log1)
        ELSE LET log2 == Local(Local(log1, "header"), "parse")
             IN  IF ~AllOk(result_list) THEN Raise("ValidationError", log2)
                 ELSE Value("list", Entities(result_list),
                            TotalCount(1), commit(log2))

update_many(o, log) ==
    LET result_list == o.rows
        log1 == Local(log, "read_rows")
    IN  IF result_list = <<>> THEN Response(NO_CONTENT, log1)
        ELSE LET log2 == Local(Local(log1, "header"), "parse")
             IN  IF ~AllOk(result_list) THEN Raise("ValidationError", log2)
                 ELSE Value("list", Entities(result_list),
                            TotalCount(Len(result_list)), commit(log2))

patch_one(o, log) ==
    LET log1 == Local(log, "read_rows")
    IN  IF o.rows = <<>> THEN Response(NO_CONTENT, log1)
        ELSE LET query_result == o.rows[1]
                 log2 == Local(Local(log1, "header"), "parse")
             IN  IF ~query_result.ok THEN Raise("ValidationError", log2)
                 ELSE Value("object", <<Entity(query_result)>>, TotalCount(1),
                            commit(log2))

\* mutant of patch_many: only the first row is taken, as patch_one does
patch_many_FirstRow(o, log) ==
    LET log1 == Local(log, "read_rows")
    IN  IF o.rows = <<>> THEN Response(NO_CONTENT, log1)
        ELSE LET result_list == <<o.rows[1]>>
                 log2 == Local(Local(log1, "header"), "parse")
             IN  IF ~AllOk(result_list) THEN Raise("ValidationError", log2)
                 ELSE Value("list", Entities(result_list),
                            TotalCount(Len(result_list)), commit(log2))

\* mutant of patch_many: the commit is made on the 204 path as well
patch_many_Commit204(o, log) ==
    LET result_list == o.rows
        log1 == Local(log, "read_rows")
    IN  IF result_list = <<>> THEN Response(NO_CONTENT, commit(log1))
        ELSE LET log2 == Local(Local(log1, "header"), "parse")
             IN  IF ~AllOk(result_list) THEN Raise("ValidationError", log2)
                 ELSE Value("list", Entities(result_list),
                            TotalCount(Len(result_list)), commit(log2))

patch_many(o, log) ==
    LET result_list == o.rows
        log1 == Local(log, "read_rows")
    IN  IF result_list = <<>> THEN Response(NO_CONTENT, log1)
        ELSE LET log2 == Local(Local(log1, "header"), "parse")
             IN  IF ~AllOk(result_list) THEN Raise("ValidationError", log2)
                 ELSE Value("list", Entities(result_list),
                            TotalCount(Len(result_list)), commit(log2))

\* mutant of upsert_one: the insert is answered but never committed
upsert_one_NoCommit(row, log) ==
    LET log1 == Local(log, "parse")
    IN  IF ~row.ok THEN Raise("ValidationError", log1)
        ELSE Value("object", <<Entity(row)>>, TotalCount(1), Local(log1, "header"))

\* sql_execute_result is the one row the handler unpacked
upsert_one(row, log) ==
    LET log1 == Local(log, "parse")
    IN  IF ~row.ok THEN Raise("ValidationError", log1)
        ELSE Value("object", <<Entity(row)>>, TotalCount(1),
                   commit(Local(log1, "header")))

upsert_many(o, log) ==
    LET insert_result_list == o.rows
        log2 == Local(Local(log, "read_rows"), "parse")
    IN  IF ~AllOk(insert_result_list) THEN Raise("ValidationError", log2)
        ELSE Value("list", Entities(insert_result_list),
                   TotalCount(Len(insert_result_list)),
                   commit(Local(log2, "header")))

\* mutant of delete_one: the commit is made in the branch and again after it
delete_one_CommitTwice(o, log) ==
    IF rowcount(o) # 0
    THEN LET log2 == Local(Local(log, "read_rows"), "parse")
         IN  IF ~AllOk(o.rows) THEN Raise("ValidationError", log2)
             ELSE IF Len(o.rows) # 1 THEN Raise("ValueError", log2)
             ELSE Value("object", <<KeyObject(PkOf(o.rows[1]))>>, TotalCount(1),
                        commit(commit(Local(log2, "header"))))
    ELSE Response(NO_CONTENT, commit(log))

delete_one(o, log) ==
    IF rowcount(o) # 0
    THEN LET log2 == Local(Local(log, "read_rows"), "parse")
         IN  IF ~AllOk(o.rows) THEN Raise("ValidationError", log2)
             ELSE IF Len(o.rows) # 1 THEN Raise("ValueError", log2)
             ELSE Value("object", <<KeyObject(PkOf(o.rows[1]))>>, TotalCount(1),
                        commit(Local(log2, "header")))
    ELSE Response(NO_CONTENT, commit(log))

\* mutant of delete_many: the deleted keys are answered but never committed
delete_many_NoCommit(o, log) ==
    IF rowcount(o) # 0
    THEN LET result_list == KeyObjects(o.rows)
             log2 == Local(Local(log, "read_rows"), "parse")
         IN  IF ~AllOk(o.rows) THEN Raise("ValidationError", log2)
             ELSE Value("list", result_list, TotalCount(Len(result_list)),
                        Local(log2, "header"))
    ELSE Response(NO_CONTENT, commit(log))

delete_many(o, log) ==
    IF rowcount(o) # 0
    THEN LET result_list == KeyObjects(o.rows)
             log2 == Local(Local(log, "read_rows"), "parse")
         IN  IF ~AllOk(o.rows) THEN Raise("ValidationError", log2)
             ELSE Value("list", result_list, TotalCount(Len(result_list)),
                        commit(Local(log2, "header")))
    ELSE Response(NO_CONTENT, commit(log))

\* the scan of fastapi_request.app.routes; err: unpacking route.methods failed
RECURSIVE ScanRoutes(_, _, _)
ScanRoutes(routes, redirect_end_point, redirect_url_exist) ==
    IF routes = <<>> THEN [err |-> FALSE, exist |-> redirect_url_exist]
    ELSE LET route == Head(routes)
         IN  IF route.path = redirect_end_point
             THEN IF Cardinality(route.methods) # 1
                  THEN [err |-> TRUE, exist |-> redirect_url_exist]
                  ELSE LET route_request_method == CHOOSE m \in route.methods : TRUE
                       IN  ScanRoutes(Tail(routes), redirect_end_point,
                                      redirect_url_exist
                                        \/ upper(route_request_method) = "GET")
             ELSE ScanRoutes(Tail(routes), redirect_end_point, redirect_url_exist)

\* the text of the FindOneApiNotRegister error; the f-string formats the set
\* {self.primary_name}
NotRegisteredDetail(url_path) ==
    "End Point " \o url_path \o "/{'" \o primary_name \o "'}"
        \o " with GET method not found"

\* mutant of post_redirect_get: no assert on the primary-key value
post_redirect_get_NoAssert(row, url_path, routes, log) ==
    LET log1 == Local(log, "parse")
    IN  IF ~row.ok THEN Raise("ValidationError", log1)
        ELSE
        LET primary_key_field == row.id
            redirect_url == url_path \o "/" \o
                (IF primary_key_field = None THEN "None" ELSE str(primary_key_field))
            redirect_end_point == url_path \o "/{" \o primary_name \o "}"
            scan == ScanRoutes(routes, redirect_end_point, FALSE)
            log2 == Local(log1, "scan")
        IN  IF scan.err THEN Raise("ValueError", log2)
            ELSE IF ~scan.exist
            THEN RaiseFindOneApiNotRegister(NotRegisteredDetail(url_path),
                                            rollback(log2))
            ELSE RedirectResponse(redirect_url, SEE_OTHER, commit(log2))

post_redirect_get(row, url_path, routes, log) ==
    LET log1 == Local(log, "parse")
    IN  IF ~row.ok THEN Raise("ValidationError", log1)
        ELSE
        LET primary_key_field == row.id
        IN  IF primary_key_field = None THEN Raise("AssertionError", log1)
            ELSE
            LET redirect_url == url_path \o "/" \o str(primary_key_field)
                redirect_end_point == url_path \o "/{" \o primary_name \o "}"
                scan == ScanRoutes(routes, redirect_end_point, FALSE)
                log2 == Local(log1, "scan")
            IN  IF scan.err THEN Raise("ValueError", log2)
                ELSE IF ~scan.exist
                THEN RaiseFindOneApiNotRegister(NotRegisteredDetail(url_path),
                                                rollback(log2))
                ELSE RedirectResponse(redirect_url, SEE_OTHER, commit(log2))

----------------------------------------------------------------------------
(* The handlers of crud_router_builder, as functions of the engine's answer *)

\* session.execute(stmt) and its await: the statement runs at the call in
\* blocking mode and at the await in async mode
Execute(log) == Append(log, Ev("execute", Mode))

\* query_result, = ...: the handler itself reads the one row of the result
Unpack(log) == Local(log, "read_rows")

\* await result_parser.<operation>(...): the handler enters the interpreter
Enter(log) == Local(log, "interpret")

\* session.execute(stmt); session.expire_all(); await: in async mode the
\* coroutine is created, expire_all runs, and only the await runs the statement
ExecuteExpire(o) ==
    IF async_mode THEN Execute(Local(<<>>, "expire_all"))
    ELSE IF o.exc # "none" THEN Execute(<<>>)
    ELSE Local(Execute(<<>>), "expire_all")

\* mutant of OnIntegrityError: the session is committed before the 409
OnIntegrityError_Commit(o, log) ==
    LET err_msg == o.msg
    IN  IF ~Contains(err_msg, DuplicateKeyMarker) THEN Propagate(o, log)
        ELSE Response(CONFLICT, commit(log))

\* mutant of OnIntegrityError: every IntegrityError is answered with 409
OnIntegrityError_Swallow(o, log) == Response(CONFLICT, log)

\* mutant of OnIntegrityError: the session is rolled back before the 409
OnIntegrityError_Rollback(o, log) ==
    LET err_msg == o.msg
    IN  IF ~Contains(err_msg, DuplicateKeyMarker) THEN Propagate(o, log)
        ELSE Response(CONFLICT, rollback(log))

\* the except IntegrityError clause of the three inserting handlers
OnIntegrityError(o, log) ==
    LET err_msg == o.msg
    IN  IF ~Contains(err_msg, DuplicateKeyMarker) THEN Propagate(o, log)
        ELSE Response(CONFLICT, log)

Handle_find_one(o) ==
    IF o.exc # "none" THEN Propagate(o, Execute(<<>>))
    ELSE find_one(o, Enter(Execute(<<>>)))

Handle_find_many(o) ==
    IF o.exc # "none" THEN Propagate(o, Execute(<<>>))
    ELSE find_many(o, Enter(Execute(<<>>)))

\* mutant of Handle_upsert_one: no except clause around the execution
Handle_upsert_one_NoGuard(o) ==
    IF o.exc # "none" THEN Propagate(o, Execute(<<>>))
    ELSE IF Len(o.rows) # 1 THEN Raise("ValueError", Unpack(Execute(<<>>)))
    ELSE upsert_one(o.rows[1], Enter(Unpack(Execute(<<>>))))

Handle_upsert_one(o) ==
    IF o.exc = "IntegrityError" THEN OnIntegrityError(o, Execute(<<>>))
    ELSE IF o.exc # "none" THEN Propagate(o, Execute(<<>>))
    ELSE IF Len(o.rows) # 1 THEN Raise("ValueError", Unpack(Execute(<<>>)))
    ELSE upsert_one(o.rows[1], Enter(Unpack(Execute(<<>>))))

Handle_upsert_many(o) ==
    IF o.exc = "IntegrityError" THEN OnIntegrityError(o, Execute(<<>>))
    ELSE IF o.exc # "none" THEN Propagate(o, Execute(<<>>))
    ELSE upsert_many(o, Enter(Execute(<<>>)))

Handle_delete_one(o) ==
    IF o.exc # "none" THEN Propagate(o, ExecuteExpire(o))
    ELSE delete_one(o, Enter(ExecuteExpire(o)))

Handle_delete_many(o) ==
    IF o.exc # "none" THEN Propagate(o, ExecuteExpire(o))
    ELSE delete_many(o, Enter(ExecuteExpire(o)))

Handle_post_redirect_get(o, url_path, routes) ==
    IF o.exc = "IntegrityError" THEN OnIntegrityError(o, Execute(<<>>))
    ELSE IF o.exc # "none" THEN Propagate(o, Execute(<<>>))
    ELSE IF Len(o.rows) # 1 THEN Raise("ValueError", Unpack(Execute(<<>>)))
    ELSE post_redirect_get(o.rows[1], url_path, routes, Enter(Unpack(Execute(<<>>))))

Handle_patch_one(o) ==
    IF o.exc # "none" THEN Propagate(o, ExecuteExpire(o))
    ELSE patch_one(o, Enter(ExecuteExpire(o)))

Handle_patch_many(o) ==
    IF o.exc # "none" THEN Propagate(o, ExecuteExpire(o))
    ELSE patch_many(o, Enter(ExecuteExpire(o)))

Handle_update_one(o) ==
    IF o.exc # "none" THEN Propagate(o, ExecuteExpire(o))
    ELSE update_one(o, Enter(ExecuteExpire(o)))

Handle_update_many(o) ==
    IF o.exc # "none" THEN Propagate(o, ExecuteExpire(o))
    ELSE update_many(o, Enter(ExecuteExpire(o)))

----------------------------------------------------------------------------
(* The registry: crud_router_builder *)

\* what @api.get / post / put / patch / delete add to api.routes
APIRoute(route_path, method, name, status_code) ==
    [path |-> route_path, methods |-> {method}, name |-> name,
     status_code |-> status_code]

\* mutant of RouteOf: delete-many is registered on the primary-key path
RouteOf_DeleteManyByKey(kind) ==
    CASE kind = "FIND_ONE" -> APIRoute(path, "GET", "get_one_by_primary_key", OK)
      [] kind = "FIND_MANY" -> APIRoute("", "GET", "get_many", OK)
      [] kind = "UPSERT_ONE" ->
            APIRoute("", "POST", "insert_one_and_support_upsert", CREATED)
      [] kind = "UPSERT_MANY" ->
            APIRoute("", "POST", "insert_many_and_support_upsert", CREATED)
      [] kind = "DELETE_ONE" ->
            APIRoute(path, "DELETE", "delete_one_by_primary_key", OK)
      [] kind = "DELETE_MANY" -> APIRoute(path, "DELETE", "delete_many_by_query", OK)
      [] kind = "POST_REDIRECT_GET" ->
            APIRoute("", "POST",
                     "create_one_and_redirect_to_get_one_api_with_primary_key",
                     SEE_OTHER)
      [] kind = "PATCH_ONE" ->
            APIRoute(path, "PATCH", "partial_update_one_by_primary_key", OK)
      [] kind = "PATCH_MANY" ->
            APIRoute("", "PATCH", "partial_update_many_by_query", OK)
      [] kind = "UPDATE_ONE" ->
            APIRoute(path, "PUT", "entire_update_by_primary_key", OK)
      [] kind = "UPDATE_MANY" ->
            APIRoute("", "PUT", "entire_update_many_by_query", OK)

\* the route each function of api_register registers (get_many's decorator
\* names no status_code: FastAPI's default, 200)
RouteOf(kind) ==
    CASE kind = "FIND_ONE" -> APIRoute(path, "GET", "get_one_by_primary_key", OK)
      [] kind = "FIND_MANY" -> APIRoute("", "GET", "get_many", OK)
      [] kind = "UPSERT_ONE" ->
            APIRoute("", "POST", "insert_one_and_support_upsert", CREATED)
      [] kind = "UPSERT_MANY" ->
            APIRoute("", "POST", "insert_many_and_support_upsert", CREATED)
      [] kind = "DELETE_ONE" ->
            APIRoute(path, "DELETE", "delete_one_by_primary_key", OK)
      [] kind = "DELETE_MANY" -> APIRoute("", "DELETE", "delete_many_by_query", OK)
      [] kind = "POST_REDIRECT_GET" ->
            APIRoute("", "POST",
                     "create_one_and_redirect_to_get_one_api_with_primary_key",
                     SEE_OTHER)
      [] kind = "PATCH_ONE" ->
            APIRoute(path, "PATCH", "partial_update_one_by_primary_key", OK)
      [] kind = "PATCH_MANY" ->
            APIRoute("", "PATCH", "partial_update_many_by_query", OK)
      [] kind = "UPDATE_ONE" ->
            APIRoute(path, "PUT", "entire_update_by_primary_key", OK)
      [] kind = "UPDATE_MANY" ->
            APIRoute("", "PUT", "entire_update_many_by_query", OK)

\* api_register[kind](...) inside the registration loop; crud_models names each
\* enabled kind once, in an order of its own
Register(kind) ==
    /\ kind \in pending
    /\ pending' = pending \ {kind}
    /\ api_routes' = Append(api_routes, RouteOf(kind))
    /\ UNCHANGED <<async_mode, autocommit, enabled, phase, req, res, db, txn, prev>>

find_one_api == Register("FIND_ONE")
find_many_api == Register("FIND_MANY")
upsert_one_api == Register("UPSERT_ONE")
upsert_many_api == Register("UPSERT_MANY")
delete_one_api == Register("DELETE_ONE")
delete_many_api == Register("DELETE_MANY")
post_redirect_get_api == Register("POST_REDIRECT_GET")
patch_one_api == Register("PATCH_ONE")
patch_many_api == Register("PATCH_MANY")
put_api == Register("UPDATE_ONE")
put_many_api == Register("UPDATE_MANY")

\* the order of the keys of api_register
ApiRegisterOrder ==
    <<"FIND_ONE", "FIND_MANY", "UPSERT_ONE", "UPSERT_MANY", "DELETE_ONE",
      "DELETE_MANY", "POST_REDIRECT_GET", "PATCH_ONE", "PATCH_MANY",
      "UPDATE_ONE", "UPDATE_MANY">>

----------------------------------------------------------------------------
(* Requests *)

NoReq == [kind |-> "none", outcome |-> [exc |-> "none", msg |-> <<>>, rows |-> <<>>],
          url_path |-> "", routes |-> <<>>]
NoRes == [via |-> "none", status |-> 0, shape |-> "none", items |-> <<>>,
          headers |-> {}, location |-> "", exc |-> "none", msg |-> <<>>,
          log |-> <<>>]

\* the route of this name and the status_code of its decorator
Registered(name) == \E i \in 1..Len(api_routes) : api_routes[i].name = name

\* a request is dispatched to the first route of api.routes, in registration
\* order, that matches its method and path: the route `name` serves requests
\* when no route before it has its method and path
Serving(name) ==
    \E i \in 1..Len(api_routes) :
        /\ api_routes[i].name = name
        /\ \A j \in 1..(i - 1) :
              \/ api_routes[j].path # api_routes[i].path
              \/ api_routes[j].methods \cap api_routes[i].methods = {}
StatusCodeOf(name) ==
    LET i == CHOOSE j \in 1..Len(api_routes) : api_routes[j].name = name
    IN  api_routes[i].status_code

\* the endpoint `name` of kind `kind` handles a request; result is what the
\* handler function returns or raises
Serve(kind, name, o, url_path, routes, result) ==
    /\ req' = [kind |-> kind, outcome |-> o, url_path |-> url_path, routes |-> routes]
    /\ res' = Endpoint(StatusCodeOf(name), result)
    /\ phase' = "done"
    /\ UNCHANGED <<async_mode, autocommit, enabled, pending, api_routes, db, txn, prev>>

get_one_by_primary_key ==
    /\ phase = "idle"
    /\ Serving("get_one_by_primary_key")
    /\ \E o \in Outcomes("FIND_ONE") :
            Serve("FIND_ONE", "get_one_by_primary_key", o, "", <<>>, Handle_find_one(o))

get_many ==
    /\ phase = "idle"
    /\ Serving("get_many")
    /\ \E o \in Outcomes("FIND_MANY") :
            Serve("FIND_MANY", "get_many", o, "", <<>>, Handle_find_many(o))

insert_one_and_support_upsert ==
    /\ phase = "idle"
    /\ Serving("insert_one_and_support_upsert")
    /\ \E o \in Outcomes("UPSERT_ONE") :
            Serve("UPSERT_ONE", "insert_one_and_support_upsert", o, "", <<>>,
                  Handle_upsert_one(o))

insert_many_and_support_upsert ==
    /\ phase = "idle"
    /\ Serving("insert_many_and_support_upsert")
    /\ \E o \in Outcomes("UPSERT_MANY") :
            Serve("UPSERT_MANY", "insert_many_and_support_upsert", o, "", <<>>,
                  Handle_upsert_many(o))

delete_one_by_primary_key ==
    /\ phase = "idle"
    /\ Serving("delete_one_by_primary_key")
    /\ \E o \in Outcomes("DELETE_ONE") :
            Serve("DELETE_ONE", "delete_one_by_primary_key", o, "", <<>>,
                  Handle_delete_one(o))

delete_many_by_query ==
    /\ phase = "idle"
    /\ Serving("delete_many_by_query")
    /\ \E o \in Outcomes("DELETE_MANY") :
            Serve("DELETE_MANY", "delete_many_by_query", o, "", <<>>,
                  Handle_delete_many(o))

create_one_and_redirect_to_get_one_api_with_primary_key ==
    /\ phase = "idle"
    /\ Serving("create_one_and_redirect_to_get_one_api_with_primary_key")
    /\ \E o \in Outcomes("POST_REDIRECT_GET"), url_path \in UrlPaths,
           routes \in RouteTables :
            Serve("POST_REDIRECT_GET",
                  "create_one_and_redirect_to_get_one_api_with_primary_key",
                  o, url_path, routes, Handle_post_redirect_get(o, url_path, routes))

partial_update_one_by_primary_key ==
    /\ phase = "idle"
    /\ Serving("partial_update_one_by_primary_key")
    /\ \E o \in Outcomes("PATCH_ONE") :
            Serve("PATCH_ONE", "partial_update_one_by_primary_key", o, "", <<>>,
                  Handle_patch_one(o))

partial_update_many_by_query ==
    /\ phase = "idle"
    /\ Serving("partial_update_many_by_query")
    /\ \E o \in Outcomes("PATCH_MANY") :
            Serve("PATCH_MANY", "partial_update_many_by_query", o, "", <<>>,
                  Handle_patch_many(o))

entire_update_by_primary_key ==
    /\ phase = "idle"
    /\ Serving("entire_update_by_primary_key")
    /\ \E o \in Outcomes("UPDATE_ONE") :
            Serve("UPDATE_ONE", "entire_update_by_primary_key", o, "", <<>>,
                  Handle_update_one(o))

entire_update_many_by_query ==
    /\ phase = "idle"
    /\ Serving("entire_update_many_by_query")
    /\ \E o \in Outcomes("UPDATE_MANY") :
            Serve("UPDATE_MANY", "entire_update_many_by_query", o, "", <<>>,
                  Handle_update_many(o))

\* the request is over: its session (Depends(db_session)) and its response
\* are gone, and the router waits for the next request
Release ==
    /\ phase = "done"
    /\ phase' = "idle"
    /\ req' = NoReq
    /\ res' = NoRes
    /\ UNCHANGED <<async_mode, autocommit, enabled, pending, api_routes, db, txn, prev>>

----------------------------------------------------------------------------
(* The table behind the router.  The query service and the engine are not  *)
(* part of crud_router.py: statements are modelled from the specification  *)
(* of the query service (point read, upsert under a uniqueness constraint, *)
(* delete by filter), and the session as a unit-of-work whose writes reach *)
(* the table at commit and are given up when the session closes.           *)

\* rows of the table: the primary key is set and unique, and a stored row fits
\* the schemas that were generated from the same entity
TableRows == [id : 1..MaxPk, val : Vals, ok : {TRUE}]
Tables == {T \in SUBSET TableRows : \A r, s \in T : r.id = s.id => r = s}

\* a statement without a condition on the column
NoFilter == "*"

\* crud_service.upsert(query, unique_list, session)
upsert(query) == [op |-> "upsert", id |-> query.id, val |-> query.val]
\* crud_service.get_one(filter_args, extra_args)
get_one(primary_key) == [op |-> "get_one", id |-> primary_key, val |-> NoFilter]
\* crud_service.delete(delete_args, session)
delete(delete_args) == [op |-> "delete", id |-> None, val |-> delete_args]
\* crud_service.delete(primary_key, delete_args, session)
delete_by_primary_key(primary_key) ==
    [op |-> "delete", id |-> primary_key, val |-> NoFilter]
\* crud_service.update(primary_key, update_args, extra_query, session);
\* primary_key is None in the statements of the -many kinds
update(primary_key, extra_query, update_args) ==
    [op |-> "update", id |-> primary_key, val |-> extra_query, set |-> update_args]

NoStmt == [op |-> "none", id |-> None, val |-> NoFilter]
NoTxn(table) == [stmt |-> NoStmt, before |-> table, work |-> table]
NoPrev == [kind |-> "none", stmt |-> NoStmt, res |-> NoRes, before |-> {}, after |-> {}]

\* the rows a statement's conditions select
Matches(stmt, table) ==
    {r \in table : /\ stmt.id = None \/ r.id = stmt.id
                   /\ stmt.val = NoFilter \/ r.val = stmt.val}

\* the rows of a result, in primary-key order
RECURSIVE InKeyOrder(_)
InKeyOrder(rows) ==
    IF rows = {} THEN <<>>
    ELSE LET r == CHOOSE x \in rows : \A y \in rows : x.id <= y.id
         IN  <<r>> \o InKeyOrder(rows \ {r})

Returning(rows) == [exc |-> "none", msg |-> <<>>, rows |-> InKeyOrder(rows)]
UniqueViolationError ==
    [exc |-> "IntegrityError", msg |-> <<DuplicateKeyMarker, " \"t_pkey\"">>,
     rows |-> <<>>]

\* session.execute(stmt) on a session that sees `table`: the answer of the
\* engine and the table the session sees afterwards
session_execute(stmt, table) ==
    CASE stmt.op = "upsert" ->
            IF \E r \in table : r.id = stmt.id
            THEN [outcome |-> UniqueViolationError, table |-> table]
            ELSE LET row == [id |-> stmt.id, val |-> stmt.val, ok |-> TRUE]
                 IN  [outcome |-> Returning({row}), table |-> table \cup {row}]
      [] stmt.op = "get_one" ->
            [outcome |-> Returning(Matches(stmt, table)), table |-> table]
      [] stmt.op = "delete" ->
            [outcome |-> Returning(Matches(stmt, table)),
             table |-> table \ Matches(stmt, table)]
      [] stmt.op = "update" ->
            LET updated == {[r EXCEPT !.val = stmt.set] : r \in Matches(stmt, table)}
            IN  [outcome |-> Returning(updated),
                 table |-> (table \ Matches(stmt, table)) \cup updated]

\* the endpoint `name` of kind `kind` handles a request on the table: the
\* session's writes are persisted by the commit the handler makes
ServeOnTable(kind, name, stmt, run, result) ==
    /\ req' = [kind |-> kind, outcome |-> run.outcome, url_path |-> "", routes |-> <<>>]
    /\ res' = Endpoint(StatusCodeOf(name), result)
    /\ txn' = [stmt |-> stmt, before |-> db, work |-> run.table]
    /\ db' = IF \E i \in 1..Len(result.log) : result.log[i][1] = "commit"
             THEN run.table ELSE db
    /\ phase' = "done"
    /\ UNCHANGED <<async_mode, autocommit, enabled, pending, api_routes, prev>>

\* get_one_by_primary_key on the table
get_one_by_primary_key_on_table ==
    /\ phase = "idle"
    /\ Serving("get_one_by_primary_key")
    /\ \E primary_key \in 1..MaxPk :
          LET stmt == get_one(primary_key)
              run == session_execute(stmt, db)
          IN  ServeOnTable("FIND_ONE", "get_one_by_primary_key", stmt, run,
                           Handle_find_one(run.outcome))

\* insert_one_and_support_upsert on the table
insert_one_and_support_upsert_on_table ==
    /\ phase = "idle"
    /\ Serving("insert_one_and_support_upsert")
    /\ \E query \in [id : 1..MaxPk, val : Vals] :
          LET stmt == upsert(query)
              run == session_execute(stmt, db)
          IN  ServeOnTable("UPSERT_ONE", "insert_one_and_support_upsert", stmt, run,
                           Handle_upsert_one(run.outcome))

\* delete_many_by_query on the table
delete_many_by_query_on_table ==
    /\ phase = "idle"
    /\ Serving("delete_many_by_query")
    /\ \E delete_args \in Vals \cup {NoFilter} :
          LET stmt == delete(delete_args)
              run == session_execute(stmt, db)
          IN  ServeOnTable("DELETE_MANY", "delete_many_by_query", stmt, run,
                           Handle_delete_many(run.outcome))

\* delete_one_by_primary_key on the table
delete_one_by_primary_key_on_table ==
    /\ phase = "idle"
    /\ Serving("delete_one_by_primary_key")
    /\ \E primary_key \in 1..MaxPk :
          LET stmt == delete_by_primary_key(primary_key)
              run == session_execute(stmt, db)
          IN  ServeOnTable("DELETE_ONE", "delete_one_by_primary_key", stmt, run,
                           Handle_delete_one(run.outcome))

\* partial_update_one_by_primary_key on the table
partial_update_one_by_primary_key_on_table ==
    /\ phase = "idle"
    /\ Serving("partial_update_one_by_primary_key")
    /\ \E primary_key \in 1..MaxPk, patch_data \in Vals :
          LET stmt == update(primary_key, NoFilter, patch_data)
              run == session_execute(stmt, db)
          IN  ServeOnTable("PATCH_ONE", "partial_update_one_by_primary_key", stmt,
                           run, Handle_patch_one(run.outcome))

\* partial_update_many_by_query on the table
partial_update_many_by_query_on_table ==
    /\ phase = "idle"
    /\ Serving("partial_update_many_by_query")
    /\ \E extra_query \in Vals \cup {NoFilter}, patch_data \in Vals :
          LET stmt == update(None, extra_query, patch_data)
              run == session_execute(stmt, db)
          IN  ServeOnTable("PATCH_MANY", "partial_update_many_by_query", stmt,
                           run, Handle_patch_many(run.outcome))

\* entire_update_by_primary_key on the table
entire_update_by_primary_key_on_table ==
    /\ phase = "idle"
    /\ Serving("entire_update_by_primary_key")
    /\ \E primary_key \in 1..MaxPk, update_data \in Vals :
          LET stmt == update(primary_key, NoFilter, update_data)
              run == session_execute(stmt, db)
          IN  ServeOnTable("UPDATE_ONE", "entire_update_by_primary_key", stmt,
                           run, Handle_update_one(run.outcome))

\* entire_update_many_by_query on the table
entire_update_many_by_query_on_table ==
    /\ phase = "idle"
    /\ Serving("entire_update_many_by_query")
    /\ \E extra_query \in Vals \cup {NoFilter}, update_data \in Vals :
          LET stmt == update(None, extra_query, update_data)
              run == session_execute(stmt, db)
          IN  ServeOnTable("UPDATE_MANY", "entire_update_many_by_query", stmt,
                           run, Handle_update_many(run.outcome))

\* autocommit=False leaves the commit to the caller: the code that owns the
\* session may commit what a request that did not fail has written
caller_commit ==
    /\ phase = "done"
    /\ ~autocommit
    /\ res.via # "raise"
    /\ txn.work # db
    /\ db' = txn.work
    /\ UNCHANGED <<async_mode, autocommit, enabled, pending, api_routes, phase,
                   req, res, txn, prev>>

\* the request is over and its session is closed: what it did not commit is
\* given up, and the next request follows
session_close ==
    /\ phase = "done"
    /\ phase' = "idle"
    /\ prev' = [kind |-> req.kind, stmt |-> txn.stmt, res |-> res,
                before |-> txn.before, after |-> db]
    /\ req' = NoReq
    /\ res' = NoRes
    /\ txn' = NoTxn(db)
    /\ UNCHANGED <<async_mode, autocommit, enabled, pending, api_routes, db>>

----------------------------------------------------------------------------
(* Specifications *)

\* the kinds whose endpoint is POST on the collection path
PostOnCollection == {"UPSERT_ONE", "UPSERT_MANY", "POST_REDIRECT_GET"}

\* the sets of enabled kinds of the routers that serve requests: every kind,
\* or every kind with one of the three POST kinds only
Configurations ==
    {Kinds} \cup {Kinds \ S : S \in {T \in SUBSET PostOnCollection : Cardinality(T) = 2}}

\* api.routes of a router built for the kinds S, registered in the order of
\* api_register
RoutesOf(S) ==
    LET order == SelectSeq(ApiRegisterOrder, LAMBDA kind : kind \in S)
    IN  [i \in 1..Len(order) |-> RouteOf(order[i])]

\* a router built for one of the configurations, serving requests
Init ==
    /\ async_mode \in BOOLEAN
    /\ autocommit \in BOOLEAN
    /\ enabled \in Configurations
    /\ pending = {}
    /\ api_routes = RoutesOf(enabled)
    /\ phase = "idle"
    /\ req = NoReq
    /\ res = NoRes
    /\ db = {}
    /\ txn = NoTxn({})
    /\ prev = NoPrev

Next ==
    \/ get_one_by_primary_key
    \/ get_many
    \/ insert_one_and_support_upsert
    \/ insert_many_and_support_upsert
    \/ delete_one_by_primary_key
    \/ delete_many_by_query
    \/ create_one_and_redirect_to_get_one_api_with_primary_key
    \/ partial_update_one_by_primary_key
    \/ partial_update_many_by_query
    \/ entire_update_by_primary_key
    \/ entire_update_many_by_query
    \/ Release

Spec == Init /\ [][Next]_vars

\* crud_router_builder at work: the registration loop over the enabled kinds
InitRegistry ==
    /\ async_mode \in BOOLEAN
    /\ autocommit \in BOOLEAN
    /\ enabled \in {S \in SUBSET Kinds : Cardinality(S) <= MaxEnabled}
    /\ pending = enabled
    /\ api_routes = <<>>
    /\ phase = "idle"
    /\ req = NoReq
    /\ res = NoRes
    /\ db = {}
    /\ txn = NoTxn({})
    /\ prev = NoPrev

NextRegistry ==
    \/ find_one_api
    \/ find_many_api
    \/ upsert_one_api
    \/ upsert_many_api
    \/ delete_one_api
    \/ delete_many_api
    \/ post_redirect_get_api
    \/ patch_one_api
    \/ patch_many_api
    \/ put_api
    \/ put_many_api

SpecRegistry == InitRegistry /\ [][NextRegistry]_vars

\* a router built with every kind enabled, serving requests on a table
InitTable ==
    /\ async_mode \in BOOLEAN
    /\ autocommit \in BOOLEAN
    /\ enabled = Kinds
    /\ pending = {}
    /\ api_routes = [i \in 1..Len(ApiRegisterOrder) |-> RouteOf(ApiRegisterOrder[i])]
    /\ phase = "idle"
    /\ req = NoReq
    /\ res = NoRes
    /\ db \in Tables
    /\ txn = NoTxn(db)
    /\ prev = NoPrev

NextTable ==
    \/ get_one_by_primary_key_on_table
    \/ insert_one_and_support_upsert_on_table
    \/ delete_one_by_primary_key_on_table
    \/ delete_many_by_query_on_table
    \/ partial_update_one_by_primary_key_on_table
    \/ partial_update_many_by_query_on_table
    \/ entire_update_by_primary_key_on_table
    \/ entire_update_many_by_query_on_table
    \/ caller_commit
    \/ session_close

SpecTable == InitTable /\ [][NextTable]_vars

----------------------------------------------------------------------------
(* Properties *)

\* a handler has returned or raised for the request in req
Done == phase = "done"

\* how often the handler invoked session.commit() / session.rollback()
Commits(r) == Cardinality({i \in 1..Len(r.log) : r.log[i][1] = "commit"})
Rollbacks(r) == Cardinality({i \in 1..Len(r.log) : r.log[i][1] = "rollback"})

\* a success response: 200, 201 or 303
IsSuccess(r) == r.via \in {"value", "response"} /\ r.status \in {OK, CREATED, SEE_OTHER}

\* the response carries x-total-count with the decimal text of n, and nothing else
HeaderCount(r, n) == r.headers = {<<"x-total-count", str(n)>>}

\* 204 with an empty body
Is204(r) ==
    /\ r.via = "response"
    /\ r.status = NO_CONTENT
    /\ r.shape = "none"
    /\ r.items = <<>>
    /\ r.headers = {}

\* `status` with exactly one object and count 1
IsOneObject(r, status) ==
    /\ r.via = "value"
    /\ r.status = status
    /\ r.shape = "object"
    /\ Len(r.items) = 1
    /\ HeaderCount(r, 1)

\* `status` with a list built from exactly the rows `rows`, in order, and count
\* Len(rows)
IsListOf(r, status, rows) ==
    /\ r.via = "value"
    /\ r.status = status
    /\ r.shape = "list"
    /\ Len(r.items) = Len(rows)
    /\ \A i \in 1..Len(rows) : r.items[i].id = rows[i].id
    /\ HeaderCount(r, Len(rows))

\* the statement ran and returned rows (possibly none)
Returned(o) == o.exc = "none"
ZeroRows(o) == Returned(o) /\ o.rows = <<>>
NonZeroRows(o) == Returned(o) /\ o.rows # <<>>

\* the failure is a uniqueness violation: an IntegrityError whose message
\* carries the duplicate-key marker
UniqueViolation(o) ==
    /\ o.exc = "IntegrityError"
    /\ \E i \in 1..Len(o.msg) : o.msg[i] = DuplicateKeyMarker

Guarded == {"UPSERT_ONE", "UPSERT_MANY", "POST_REDIRECT_GET"}

\* C1 as stated: every success response, of every kind, carries x-total-count
\* equal to the number of entities in its body.
C1_EverySuccessHasCount ==
    Done /\ IsSuccess(res) => HeaderCount(res, Len(res.items))

\* C1, amended: a success response of every kind but create-and-redirect
\* carries x-total-count equal to the number of entities in its body (1 for a
\* single object, N for a list of N, 0 for an empty list); the 303 of
\* create-and-redirect has no body and carries no x-total-count.
C1_CountHeader ==
    Done /\ IsSuccess(res) =>
        IF req.kind = "POST_REDIRECT_GET"
        THEN res.headers = {} /\ res.items = <<>>
        ELSE /\ HeaderCount(res, Len(res.items))
             /\ res.shape = "object" => Len(res.items) = 1
             /\ res.shape \in {"object", "list"}

C1_Witness ==
    /\ Done
    /\ req.kind = "DELETE_MANY"
    /\ IsSuccess(res)
    /\ Len(res.items) = 2
    /\ HeaderCount(res, 2)

\* C2 as stated: for find-one, update-one, patch-one and delete-one a
\* zero-row outcome yields 204 with an empty body, and every non-zero outcome
\* yields 200 with exactly one object and count 1.
C2_EveryNonZeroIs200 ==
    Done /\ req.kind \in ByPrimaryKey =>
        /\ ZeroRows(req.outcome) => Is204(res)
        /\ NonZeroRows(req.outcome) => IsOneObject(res, OK)

\* C2, amended: for find-one, update-one, patch-one and delete-one a zero-row
\* outcome yields 204 with an empty body and never an object; a non-zero
\* outcome whose row converts to the response schema yields 200 with exactly
\* one object and count 1.
C2_SingularOutcome ==
    Done /\ req.kind \in ByPrimaryKey =>
        /\ ZeroRows(req.outcome) => Is204(res)
        /\ NonZeroRows(req.outcome) /\ AllOk(req.outcome.rows) =>
                IsOneObject(res, OK)

C2_Witness ==
    /\ Done
    /\ req.kind = "UPDATE_ONE"
    /\ ZeroRows(req.outcome)
    /\ Is204(res)

ListReaders == {"FIND_MANY", "UPDATE_MANY", "PATCH_MANY"}

\* C3 as stated: for find-many, update-many and patch-many zero realized
\* rows yield 204 (update-many, patch-many) or 200 with an empty list and count
\* 0 (find-many), and every outcome of N >= 1 rows yields 200 with a list of
\* exactly N entities.
C3_EveryNonZeroIs200 ==
    Done /\ req.kind \in ListReaders /\ Returned(req.outcome) =>
        IF req.outcome.rows = <<>> /\ req.kind # "FIND_MANY"
        THEN Is204(res)
        ELSE IsListOf(res, OK, req.outcome.rows)

\* C3, amended: zero realized rows yield 204 with no body for update-many and
\* patch-many and 200 with an empty list and count 0 for find-many; N >= 1
\* realized rows that all convert to the response schema yield 200 with a list
\* of exactly N entities, and a row that does not convert yields no list at all.
C3_ListOutcome ==
    Done /\ req.kind \in ListReaders /\ Returned(req.outcome) =>
        IF req.outcome.rows = <<>> /\ req.kind # "FIND_MANY"
        THEN Is204(res)
        ELSE IF AllOk(req.outcome.rows)
        THEN IsListOf(res, OK, req.outcome.rows)
        ELSE res.via = "raise" /\ res.items = <<>>

C3_Witness ==
    /\ Done
    /\ req.kind = "PATCH_MANY"
    /\ Len(req.outcome.rows) = 2
    /\ IsListOf(res, OK, req.outcome.rows)

\* C4: in upsert-one and upsert-many a uniqueness violation raised by the
\* statement yields 409, and commit is not invoked on that path.
C4_ConflictNotCommitted ==
    Done /\ req.kind \in {"UPSERT_ONE", "UPSERT_MANY"} /\ UniqueViolation(req.outcome) =>
        /\ res.via = "response"
        /\ res.status = CONFLICT
        /\ res.items = <<>>
        /\ Commits(res) = 0

C4_Witness ==
    /\ Done
    /\ autocommit
    /\ req.kind = "UPSERT_MANY"
    /\ UniqueViolation(req.outcome)
    /\ res.status = CONFLICT

\* the route table holds a GET route at <request path>/{<primaryKeyName>}
HasReadRoute(routes, url_path) ==
    \E i \in 1..Len(routes) :
        /\ routes[i].path = url_path \o "/{" \o primary_name \o "}"
        /\ "GET" \in routes[i].methods

\* the insert of a create-and-redirect request returned its row, and the row
\* converts to the response schema with a primary-key value
Inserted(r) ==
    /\ r.kind = "POST_REDIRECT_GET"
    /\ Returned(r.outcome)
    /\ r.outcome.rows[1].ok
    /\ r.outcome.rows[1].id # None

\* C5: create-and-redirect after a successful insert, with no GET route at
\* <request path>/{<primaryKeyName>}: the handler rolls back, never commits,
\* returns no 303 and fails with the 404-class error, in both modes and under
\* either autocommit setting.
C5_MissingRouteRollsBack ==
    Done /\ Inserted(req) /\ ~HasReadRoute(req.routes, req.url_path) =>
        /\ Rollbacks(res) = 1
        /\ Commits(res) = 0
        /\ res.via = "raise"
        /\ res.exc = "FindOneApiNotRegister"
        /\ res.status = NOT_FOUND

\* C6: create-and-redirect after a successful insert with autocommit on and a
\* GET route at <request path>/{<primaryKeyName>}: the handler commits, never
\* rolls back and returns 303 with location <request path>/<new primary key>.
C6_RedirectCommits ==
    Done /\ Inserted(req) /\ autocommit /\ HasReadRoute(req.routes, req.url_path) =>
        /\ Commits(res) = 1
        /\ Rollbacks(res) = 0
        /\ res.via = "response"
        /\ res.status = SEE_OTHER
        /\ res.location = req.url_path \o "/" \o str(req.outcome.rows[1].id)

\* C7: in upsert-one, upsert-many and create-and-redirect a failure of the
\* statement that is not a duplicate-key condition leaves the handler as that
\* same failure (same class, same message), is never turned into a response,
\* and no commit is invoked.
C7_OtherFailuresPropagate ==
    Done /\ req.kind \in Guarded /\ ~Returned(req.outcome)
         /\ ~UniqueViolation(req.outcome) =>
        /\ res.via = "raise"
        /\ res.exc = req.outcome.exc
        /\ res.msg = req.outcome.msg
        /\ Commits(res) = 0

C7_Witness ==
    /\ Done
    /\ req.kind = "POST_REDIRECT_GET"
    /\ req.outcome.exc = "IntegrityError"
    /\ ~UniqueViolation(req.outcome)
    /\ res.via = "raise"

\* C8: with autocommit off no request invokes commit, on any path; with
\* autocommit on every success path (200, 201, 303) invokes commit exactly once.
C8_AutocommitPolicy ==
    Done =>
        /\ ~autocommit => Commits(res) = 0
        /\ autocommit /\ IsSuccess(res) => Commits(res) = 1

C8_Witness ==
    /\ Done
    /\ ~autocommit
    /\ req.kind = "POST_REDIRECT_GET"
    /\ res.status = SEE_OTHER
    /\ Commits(res) = 0

\* the interface table: method and path of each kind's endpoint
InterfaceTable(kind) ==
    CASE kind = "FIND_ONE" -> <<"GET", path>>
      [] kind = "FIND_MANY" -> <<"GET", "">>
      [] kind = "UPSERT_ONE" -> <<"POST", "">>
      [] kind = "UPSERT_MANY" -> <<"POST", "">>
      [] kind = "POST_REDIRECT_GET" -> <<"POST", "">>
      [] kind = "UPDATE_ONE" -> <<"PUT", path>>
      [] kind = "UPDATE_MANY" -> <<"PUT", "">>
      [] kind = "PATCH_ONE" -> <<"PATCH", path>>
      [] kind = "PATCH_MANY" -> <<"PATCH", "">>
      [] kind = "DELETE_ONE" -> <<"DELETE", path>>
      [] kind = "DELETE_MANY" -> <<"DELETE", "">>

\* the handler function that serves each kind
EndpointOf(kind) ==
    CASE kind = "FIND_ONE" -> "get_one_by_primary_key"
      [] kind = "FIND_MANY" -> "get_many"
      [] kind = "UPSERT_ONE" -> "insert_one_and_support_upsert"
      [] kind = "UPSERT_MANY" -> "insert_many_and_support_upsert"
      [] kind = "POST_REDIRECT_GET" ->
            "create_one_and_redirect_to_get_one_api_with_primary_key"
      [] kind = "UPDATE_ONE" -> "entire_update_by_primary_key"
      [] kind = "UPDATE_MANY" -> "entire_update_many_by_query"
      [] kind = "PATCH_ONE" -> "partial_update_one_by_primary_key"
      [] kind = "PATCH_MANY" -> "partial_update_many_by_query"
      [] kind = "DELETE_ONE" -> "delete_one_by_primary_key"
      [] kind = "DELETE_MANY" -> "delete_many_by_query"

\* the routes of api.routes that serve `kind`
RoutesFor(kind) ==
    {i \in 1..Len(api_routes) : api_routes[i].name = EndpointOf(kind)}

\* C9: the registry registers exactly one endpoint for each enabled kind and
\* none for a kind that is not enabled, each bound to the method and path of
\* the interface table (throughout the registration loop: exactly the kinds
\* the loop has reached are registered).
C9_OneEndpointPerKind ==
    /\ Len(api_routes) = Cardinality(enabled \ pending)
    /\ \A kind \in Kinds :
        IF kind \in enabled \ pending
        THEN /\ Cardinality(RoutesFor(kind)) = 1
             /\ \A i \in RoutesFor(kind) :
                    /\ api_routes[i].methods = {InterfaceTable(kind)[1]}
                    /\ api_routes[i].path = InterfaceTable(kind)[2]
        ELSE RoutesFor(kind) = {}

C9_Witness ==
    /\ pending = {}
    /\ enabled = {"FIND_ONE", "DELETE_MANY", "POST_REDIRECT_GET"}
    /\ Len(api_routes) = 3

\* the response artifact a handler's result is: its status and body shape, the
\* missing-read-route error, or an unrecovered failure
Artifact(r) ==
    IF r.via = "raise"
    THEN IF r.exc = "FindOneApiNotRegister" THEN <<r.status, "not_registered">>
         ELSE <<0, "failure">>
    ELSE <<r.status, r.shape>>

\* the artifacts of each kind's row in the result table, with the conflict and
\* missing-read-route branches of the kinds that have them
TableRow(kind) ==
    CASE kind \in {"FIND_ONE", "UPDATE_ONE", "PATCH_ONE", "DELETE_ONE"} ->
            {<<NO_CONTENT, "none">>, <<OK, "object">>}
      [] kind = "FIND_MANY" -> {<<OK, "list">>}
      [] kind \in {"UPDATE_MANY", "PATCH_MANY", "DELETE_MANY"} ->
            {<<NO_CONTENT, "none">>, <<OK, "list">>}
      [] kind = "UPSERT_ONE" -> {<<CREATED, "object">>, <<CONFLICT, "none">>}
      [] kind = "UPSERT_MANY" -> {<<CREATED, "list">>, <<CONFLICT, "none">>}
      [] kind = "POST_REDIRECT_GET" ->
            {<<SEE_OTHER, "none">>, <<CONFLICT, "none">>,
             <<NOT_FOUND, "not_registered">>}

Second(kind1, kind2) == Done /\ prev.kind = kind1 /\ req.kind = kind2

\* C11: with autocommit on, an upsert-one that returned 201 with object o and
\* then a find-one with o's primary key: the find-one returns 200 with one
\* object, equal to o field by field.
C11_RoundTrip ==
    /\ autocommit
    /\ Second("UPSERT_ONE", "FIND_ONE")
    /\ prev.res.via = "value"
    /\ prev.res.status = CREATED
    /\ txn.stmt.id = prev.res.items[1].id
    => /\ IsOneObject(res, OK)
       /\ res.items[1] = prev.res.items[1]

C11_Witness ==
    /\ autocommit
    /\ Second("UPSERT_ONE", "FIND_ONE")
    /\ prev.res.via = "value"
    /\ prev.res.status = CREATED
    /\ txn.stmt.id = prev.res.items[1].id
    /\ res.status = OK
    /\ res.items = prev.res.items

\* two upsert-one requests with the same payload, whose key was not stored
\* before the first
SamePayloadTwice ==
    /\ Second("UPSERT_ONE", "UPSERT_ONE")
    /\ txn.stmt = prev.stmt
    /\ \A r \in prev.before : r.id # prev.stmt.id

\* what C12 says of the two requests: the first returns 201 with the inserted
\* object and count 1 and its row is persisted, the second returns 409 and
\* the persisted rows are those after the first
FirstInsertsSecondConflicts ==
    /\ IsOneObject(prev.res, CREATED)
    /\ prev.res.items[1] = [id |-> prev.stmt.id, val |-> prev.stmt.val]
    /\ \E r \in prev.after : r.id = prev.stmt.id /\ r.val = prev.stmt.val
    /\ res.via = "response"
    /\ res.status = CONFLICT
    /\ db = prev.after

\* C12 as stated: two upsert-one requests with the same payload: the first
\* returns 201 and its row is persisted, the second returns 409 and leaves
\* the persisted rows as they were after the first.
C12_SecondUpsertConflicts ==
    SamePayloadTwice => FirstInsertsSecondConflicts

\* C12, amended: with autocommit on, two upsert-one requests with the same
\* payload: the first returns 201 with the inserted object and count 1 and
\* its row is persisted, the second returns 409 and leaves the persisted rows
\* as they were after the first.
C12_SecondUpsertConflictsUnderAutocommit ==
    autocommit /\ SamePayloadTwice => FirstInsertsSecondConflicts

C12_Witness ==
    /\ autocommit
    /\ SamePayloadTwice
    /\ res.status = CONFLICT
    /\ db = prev.after
    /\ db # prev.before

\* C13: with autocommit on, two identical delete-many requests whose filter
\* matches N >= 1 rows: the first returns 200 with the list of the N key
\* objects and count N, the second returns 204 with no body.
C13_DeleteManyTwice ==
    /\ autocommit
    /\ Second("DELETE_MANY", "DELETE_MANY")
    /\ txn.stmt = prev.stmt
    /\ Matches(prev.stmt, prev.before) # {}
    => LET matched == Matches(prev.stmt, prev.before)
       IN  /\ prev.res.via = "value"
           /\ prev.res.status = OK
           /\ prev.res.shape = "list"
           /\ Len(prev.res.items) = Cardinality(matched)
           /\ {prev.res.items[i] : i \in 1..Len(prev.res.items)}
                = {KeyObject(r.id) : r \in matched}
           /\ HeaderCount(prev.res, Cardinality(matched))
           /\ Is204(res)

C13_Witness ==
    /\ autocommit
    /\ Second("DELETE_MANY", "DELETE_MANY")
    /\ txn.stmt = prev.stmt
    /\ Cardinality(Matches(prev.stmt, prev.before)) = 2
    /\ Len(prev.res.items) = 2
    /\ res.status = NO_CONTENT

\* the positions of the steps `op` in the request's log, and their order
Steps(r, op) == {i \in 1..Len(r.log) : r.log[i][1] = op}
Precedes(r, op1, op2) == \A i \in Steps(r, op1), j \in Steps(r, op2) : i < j

\* C14: on every success path the rows are read and converted first, then
\* the x-total-count header is set, then the commit is made; the header is
\* never set before the conversion.
C14_ConvertThenHeaderThenCommit ==
    Done /\ IsSuccess(res) =>
        /\ Precedes(res, "read_rows", "parse")
        /\ Precedes(res, "parse", "header")
        /\ Precedes(res, "header", "commit")
        /\ Precedes(res, "parse", "commit")

Mutating ==
    {"UPDATE_ONE", "UPDATE_MANY", "PATCH_ONE", "PATCH_MANY", "DELETE_ONE",
     "DELETE_MANY"}

\* C15: for every update, patch and delete kind, in both modes, the cached
\* row state is invalidated after the engine has executed the mutating
\* statement and before any result row is read.
C15_ExpireAfterExecute ==
    Done /\ req.kind \in Mutating /\ Returned(req.outcome) =>
        /\ Steps(res, "expire_all") # {}
        /\ Precedes(res, "execute", "expire_all")
        /\ Precedes(res, "expire_all", "read_rows")

\* C16: on the 409 path of upsert-one, upsert-many and create-and-redirect
\* the handler invokes neither commit nor rollback and sets no x-total-count
\* header; for create-and-redirect the Redirect Linker does not run: no scan
\* of the routes, no 303, no missing-read-route error.
C16_ConflictPathIsBare ==
    Done /\ req.kind \in Guarded /\ UniqueViolation(req.outcome) =>
        /\ res.via = "response"
        /\ res.status = CONFLICT
        /\ Commits(res) = 0
        /\ Rollbacks(res) = 0
        /\ res.headers = {}
        /\ \A op \in {"header", "parse", "scan"} : Steps(res, op) = {}
        /\ res.location = ""
        /\ res.exc = "none"

C16_Witness ==
    /\ Done
    /\ req.kind = "POST_REDIRECT_GET"
    /\ UniqueViolation(req.outcome)
    /\ HasReadRoute(req.routes, req.url_path)
    /\ res.status = CONFLICT
    /\ res.log = <<Ev("execute", Mode)>>

\* the statement returned rows, and not all of them fit the response schema
SchemaMismatch(o) == Returned(o) /\ ~AllOk(o.rows)

\* C17: for every kind, rows that do not fit the declared response schema
\* end the request in an unrecovered failure: not 204, 409, 303 or the
\* missing-read-route error, and with neither a commit nor a success body.
C17_MismatchIsFailure ==
    Done /\ SchemaMismatch(req.outcome) =>
        /\ res.via = "raise"
        /\ res.exc = "ValidationError"
        /\ res.status \notin {OK, CREATED, NO_CONTENT, CONFLICT, SEE_OTHER, NOT_FOUND}
        /\ Commits(res) = 0
        /\ res.shape = "none"
        /\ res.items = <<>>
        /\ res.headers = {}
        /\ res.location = ""

C17_Witness ==
    /\ Done
    /\ req.kind = "UPDATE_MANY"
    /\ autocommit
    /\ Len(req.outcome.rows) = 2
    /\ req.outcome.rows[1].ok
    /\ ~req.outcome.rows[2].ok
    /\ res.exc = "ValidationError"
    /\ Steps(res, "header") # {}

\* C18: the Redirect Linker decides "read route present" exactly when some
\* route of the table has the path <request path>/{<primary key name>} and
\* GET among its methods, whatever the order of the routes, the other routes
\* at that path and the number of methods of a matching route; the scan
\* always ends in one of the two decisions.
C18_ScanDecides ==
    Done /\ Inserted(req) =>
        IF HasReadRoute(req.routes, req.url_path)
        THEN res.via = "response" /\ res.status = SEE_OTHER
        ELSE res.via = "raise" /\ res.exc = "FindOneApiNotRegister"

\* the steps of a request that call the engine
EngineCalls == {"execute", "commit", "rollback"}

\* C19: every call of a request to the engine (statement execution, commit,
\* rollback) is awaited in suspending mode and a plain call in blocking mode;
\* no request mixes the two, the rollback of create-and-redirect included.
C19_OneCallStylePerMode ==
    Done =>
        \A i \in 1..Len(res.log) :
            res.log[i][1] \in EngineCalls =>
                res.log[i][2] = IF async_mode THEN "await" ELSE "call"

C19_Witness ==
    /\ Done
    /\ async_mode
    /\ req.kind = "POST_REDIRECT_GET"
    /\ Steps(res, "execute") # {}
    /\ Steps(res, "rollback") # {}
    /\ \A i \in 1..Len(res.log) :
          res.log[i][1] \in EngineCalls => res.log[i][2] = "await"

\* the steps of the request that come after step i of its log
After(r, i) == (i + 1)..Len(r.log)

\* C20 as stated: no suspension point lies inside the Result Interpreter:
\* once an interpreter operation has started it reads no rows and awaits
\* nothing.
C20_NoSuspensionInside ==
    Done =>
        \A i \in Steps(res, "interpret") :
            \A j \in After(res, i) :
                /\ res.log[j][1] # "read_rows"
                /\ res.log[j][2] # "await"

\* C20, amended: the statement has been executed before an interpreter
\* operation starts and the interpreter executes none; inside an operation
\* the rows are read and converted without suspension, and the only
\* suspension points are the commit and the rollback, which come after every
\* row has been read and converted.
C20_SuspendsOnlyToEndUnitOfWork ==
    Done =>
        \A i \in Steps(res, "interpret") :
            /\ \A k \in Steps(res, "execute") : k < i
            /\ \A j \in After(res, i) :
                /\ res.log[j][2] = "await" => res.log[j][1] \in {"commit", "rollback"}
                /\ res.log[j][1] \in {"read_rows", "parse"} => res.log[j][2] = "local"
                /\ res.log[j][1] \in {"commit", "rollback"} =>
                      \A k \in After(res, j) : res.log[k][1] \notin {"read_rows", "parse"}

C20_Witness ==
    /\ Done
    /\ async_mode
    /\ autocommit
    /\ req.kind = "FIND_MANY"
    /\ Len(req.outcome.rows) = 2
    /\ \E i \in Steps(res, "interpret"), j \in Steps(res, "read_rows"),
          k \in Steps(res, "commit") :
            /\ i < j
            /\ j < k
            /\ res.log[k][2] = "await"

\* the insert of a create-and-redirect request returned its row, the row
\* converts to the response schema, and it carries no primary-key value
InsertedWithoutKey(r) ==
    /\ r.kind = "POST_REDIRECT_GET"
    /\ Returned(r.outcome)
    /\ r.outcome.rows[1].ok
    /\ r.outcome.rows[1].id = None

\* C21: create-and-redirect whose inserted row, converted to the response
\* schema, has no primary-key value fails with an assertion failure before
\* the route table is scanned: no 303, no commit and no rollback.
C21_NoKeyAssertsBeforeScan ==
    Done /\ InsertedWithoutKey(req) =>
        /\ res.via = "raise"
        /\ res.exc = "AssertionError"
        /\ Steps(res, "scan") = {}
        /\ res.status # SEE_OTHER
        /\ res.location = ""
        /\ Commits(res) = 0
        /\ Rollbacks(res) = 0

C21_Witness ==
    /\ Done
    /\ InsertedWithoutKey(req)
    /\ autocommit
    /\ HasReadRoute(req.routes, req.url_path)
    /\ res.exc = "AssertionError"
    /\ Steps(res, "parse") # {}

\* the steps of the request that end its unit-of-work
Endings(r) == Steps(r, "commit") \cup Steps(r, "rollback")

\* C22: in every request the handler invokes commit at most once and
\* rollback at most once, never both, and never before the statement of the
\* request has been executed.
C22_OneEndingAfterExecute ==
    Done =>
        /\ Commits(res) <= 1
        /\ Rollbacks(res) <= 1
        /\ Commits(res) = 0 \/ Rollbacks(res) = 0
        /\ \A j \in Endings(res) : \E i \in Steps(res, "execute") : i < j
        /\ \A i \in Steps(res, "execute"), j \in Endings(res) : i < j

C22_Witness ==
    /\ Done
    /\ async_mode
    /\ autocommit
    /\ req.kind = "DELETE_ONE"
    /\ Commits(res) = 1
    /\ Rollbacks(res) = 0
    /\ res.status = OK
    /\ Precedes(res, "execute", "commit")

\* the kinds that answer 204 without a commit, and those that commit on 204
NoCommitOn204 == {"UPDATE_ONE", "UPDATE_MANY", "PATCH_ONE", "PATCH_MANY"}
CommitOn204 == {"FIND_ONE", "DELETE_ONE", "DELETE_MANY"}

\* C23: a zero-row outcome of update-one, update-many, patch-one or
\* patch-many is answered with 204 without commit, rollback or x-total-count,
\* even under autocommit; find-one, delete-one and delete-many answer 204 and
\* commit under autocommit; in both groups the persisted rows are those
\* before the request.
C23_EmptyOutcomeFrame ==
    Done /\ ZeroRows(req.outcome) =>
        /\ req.kind \in NoCommitOn204 =>
              /\ Is204(res)
              /\ Commits(res) = 0
              /\ Rollbacks(res) = 0
              /\ Steps(res, "header") = {}
        /\ req.kind \in CommitOn204 =>
              /\ Is204(res)
              /\ Commits(res) = IF autocommit THEN 1 ELSE 0
              /\ Rollbacks(res) = 0
        /\ req.kind \in NoCommitOn204 \cup CommitOn204 =>
              /\ db = txn.before
              /\ txn.work = txn.before

C23_Witness ==
    /\ autocommit
    /\ Second("DELETE_ONE", "PATCH_MANY")
    /\ ZeroRows(req.outcome)
    /\ prev.res.status = NO_CONTENT
    /\ Commits(prev.res) = 1
    /\ res.status = NO_CONTENT
    /\ Commits(res) = 0
    /\ db # {}
    /\ db = prev.before

\* C24: for any set of enabled kinds the registered endpoints have pairwise
\* distinct (method, path) pairs, so the handler of every registered kind is
\* the one that serves the requests on its method and path.
C24_DistinctMethodAndPath ==
    /\ \A i, j \in 1..Len(api_routes) :
          i # j =>
              \/ api_routes[i].path # api_routes[j].path
              \/ api_routes[i].methods \cap api_routes[j].methods = {}
    /\ \A kind \in enabled \ pending : Serving(EndpointOf(kind))

====
